---- MODULE Spec2Model ----
(***************************************************************************)
(* Provider scraping and asset ingestion of FullSetBackend:                *)
(* scrappers/elpatron.py, scrappers/touche.py, scrapper_core.py, main.py.  *)
(*                                                                         *)
(* Spec        concurrent fetch_products_for_category calls (browser       *)
(*             session, profile directories, scroll and "load more" loop). *)
(* SpecFair    the same, with weak fairness of every thread's next step.   *)
(* SpecAssets  update_assets_for_category calls in sequence (category      *)
(*             lookup, listing, image acquisition, snapshot rows).         *)
(* SpecCategories  concurrent get_or_create_category and                   *)
(*             refresh_categories calls on the categories table.           *)
(* SpecOverlap two overlapping requests (update_assets or                  *)
(*             refresh_categories), one per thread, on small pages.        *)
(* SpecSanitize  sanitize_filename applied to a name and to its result.    *)
(* SpecMenu    fetch_categories applied to the anchors of a menu.          *)
(* SpecItems   the stubs fetch_products_for_category builds from the       *)
(*             product items of a listing page.                            *)
(* SpecCatalog the catalog routes of main.py on table products.            *)
(***************************************************************************)
EXTENDS Integers, Sequences, FiniteSets, TLC

(* ---------------------------------------------------------------------- *)
(* Bounds and program constants                                            *)
(* ---------------------------------------------------------------------- *)

\* names tempfile.mkdtemp / the driver can give to a directory under one base
NumNames == 3

\* the largest finite number of times the "load more" control is clickable
MaxN == 2

\* touche.py:117  for _ in range(12)
ScrollIterations == 12

\* the click-attempt counter saturates here (above every value a property reads)
MaxAttempts == MaxN + 3

\* request threads running scrape invocations at the same time
Threads == {"t1", "t2"}

Providers == {"elpatron", "touche"}

\* elpatron.py:35 TMP_PROFILES_BASE, and the driver's own temporary directory
ProfileBases == {"chrome-profiles", "drivertmp"}

Paths == ProfileBases \X (1..NumNames)

\* ctl value of a control that stays clickable after every click
Always == -1

NoDir == [by |-> "none", users |-> {}]

NoPath == <<"none", 0>>

VARIABLES
    pc,        \* pc[t]: position of thread t in fetch_products_for_category
    prov,      \* prov[t]: the provider module whose function t runs
    exc,       \* exc[t]: an exception is propagating through the finally block
    acquired,  \* acquired[t]: webdriver.Chrome(...) returned a driver to this call
    userdir,   \* userdir[t]: the profile directory of t's session
    scrolls,   \* scrolls[t]: iterations done of the scroll loop
    ctl,       \* ctl[t]: clicks the "load more" control still accepts (Always: no end)
    ctlN,      \* ctlN[t]: ctl[t] when the pagination loop was entered
    attempts,  \* attempts[t]: locate-and-click tries of the pagination loop
    procs,     \* threads whose browser process is running
    profiles,  \* profiles[d]: NoDir, or who created directory d and what sessions used it
    active,    \* the threads that take requests in this specification
    op,        \* op[t]: the top-level operation thread t runs
    runs,      \* requests started so far
    uname,     \* uname[t]: the category_name argument
    ucats,     \* ucats[t]: cats, what fetch_categories returned to this call
    umatch,    \* umatch[t]: the discovered category selected (match)
    ucat,      \* ucat[t]: category_id
    ustubs,    \* ustubs[t]: productos, the listing returned
    ui,        \* ui[t]: index of the stub being processed
    uj,        \* uj[t]: index of the image candidate being processed
    uimgs,     \* uimgs[t]: image_paths of the current product
    ugot,      \* ugot[t]: the current acquisition has issued its GET
    ufail,     \* ufail[t]: why the call failed ("" while it has not)
    garg,      \* garg[t]: arguments of get_or_create_category / rows left to upsert
    categories, \* table categories: rows [id, provider, name, url]
    snapshots, \* table scraped_products, in insertion order
    files,     \* files[f]: "absent", "partial", or the response body file f holds
    acqlog,    \* acqlog[f]: outcomes of the first acquisitions of file f
    runlog,    \* one record per update_assets_for_category call, in call order
    retIds,    \* ids that get_or_create_category has returned, by (provider, name)
    usite,     \* usite[t]: the site argument of the scrapper_core call
    udrop,     \* udrop[t]: indices of the current product's candidates whose download failed
    udata,     \* udata[t]: what the image GET of the current candidate returned
    sx,        \* a name given to sanitize_filename
    sy,        \* the results of applying sanitize_filename to sx, then to its own result
    menu,      \* the anchors of the navigation menu in the page fetch_categories got
    categorias, \* what fetch_categories returned for menu
    items,     \* the product items of the listing page fetch_products_for_category parses
    productos, \* what fetch_products_for_category returned for items
    products   \* table products of the catalog: rows [id, provider, status]

browserVars == <<pc, prov, exc, acquired, userdir, scrolls, ctl, ctlN, attempts, procs, profiles>>

pipeVars == <<op, runs, uname, ucats, umatch, ucat, ustubs, ui, uj, uimgs, ugot, ufail>>

storeVars == <<garg, categories, snapshots, files, acqlog, runlog, retIds>>

callVars == <<usite, udrop, udata>>

sanVars == <<sx, sy>>

parseVars == <<menu, categorias, items, productos>>

catalogVars == <<products>>

pureVars == <<sanVars, parseVars, catalogVars>>

vars == <<browserVars, active, pipeVars, storeVars, callVars, pureVars>>

Min(a, b) == IF a < b THEN a ELSE b

(* ---------------------------------------------------------------------- *)
(* Browser session: acquisition                                            *)
(* ---------------------------------------------------------------------- *)

\* tempfile.mkdtemp(prefix, dir): a name under base that no existing entry has
MkdtempAnyName(base) == {d \in Paths : d[1] = base}

MkdtempCandidates(base) == {d \in Paths : d[1] = base /\ profiles[d] = NoDir}

\* a new invocation: what an earlier invocation of the same thread left is not its own
Relabel(t) ==
    [d \in Paths |->
        IF profiles[d] = NoDir THEN NoDir
        ELSE [by    |-> IF profiles[d].by = t THEN "earlier" ELSE profiles[d].by,
              users |-> (profiles[d].users \ {t}) \cup
                        (IF t \in profiles[d].users THEN {"earlier"} ELSE {})]]

\* fetch_products_for_category(category_url) is called on thread t
Call(t) ==
    /\ t \in active
    /\ pc[t] \in {"idle", "returned", "raised"}
    /\ \E p \in Providers :
        /\ prov' = [prov EXCEPT ![t] = p]
        /\ pc' = [pc EXCEPT ![t] = IF p = "elpatron" THEN "e_mkdtemp" ELSE "t_chrome"]
    /\ exc' = [exc EXCEPT ![t] = FALSE]
    /\ acquired' = [acquired EXCEPT ![t] = FALSE]
    /\ userdir' = [userdir EXCEPT ![t] = NoPath]
    /\ profiles' = Relabel(t)
    /\ UNCHANGED <<scrolls, ctl, ctlN, attempts, procs>>
    /\ UNCHANGED <<active, pipeVars, storeVars>>
    /\ UNCHANGED <<callVars, pureVars>>

\* elpatron.get_driver: user_data_dir = tempfile.mkdtemp(prefix="profile-", dir=TMP_PROFILES_BASE)
elp_mkdtemp(t) ==
    /\ pc[t] = "e_mkdtemp"
    /\ \/ \E d \in MkdtempCandidates("chrome-profiles") :
            /\ profiles' = [profiles EXCEPT ![d] = [by |-> t, users |-> {}]]
            /\ userdir' = [userdir EXCEPT ![t] = d]
            /\ pc' = [pc EXCEPT ![t] = "e_chrome"]
       \/ /\ MkdtempCandidates("chrome-profiles") = {}    \* FileExistsError: no usable name
          /\ pc' = [pc EXCEPT ![t] = "raised"]
          /\ UNCHANGED <<profiles, userdir>>
    /\ UNCHANGED <<prov, exc, acquired, scrolls, ctl, ctlN, attempts, procs>>
    /\ UNCHANGED <<active, pipeVars, storeVars>>
    /\ UNCHANGED <<callVars, pureVars>>

\* elpatron.get_driver: driver = webdriver.Chrome(service=service, options=opts)
elp_chrome(t) ==
    /\ pc[t] = "e_chrome"
    /\ \/ /\ procs' = procs \cup {t}
          /\ profiles' = [profiles EXCEPT ![userdir[t]].users = @ \cup {t}]
          /\ acquired' = [acquired EXCEPT ![t] = TRUE]
          /\ pc' = [pc EXCEPT ![t] = "e_get"]
       \/ /\ pc' = [pc EXCEPT ![t] = "raised"]   \* the driver/binary cannot be started
          /\ UNCHANGED <<procs, profiles, acquired>>
    /\ UNCHANGED <<prov, exc, userdir, scrolls, ctl, ctlN, attempts>>
    /\ UNCHANGED <<active, pipeVars, storeVars>>
    /\ UNCHANGED <<callVars, pureVars>>

\* touche._new_chrome_driver: webdriver.Chrome(options=opts), no --user-data-dir:
\* the driver gives the browser a temporary profile directory of its own
tch_chrome(t) ==
    /\ pc[t] = "t_chrome"
    /\ \/ \E d \in MkdtempCandidates("drivertmp") :
            /\ profiles' = [profiles EXCEPT ![d] = [by |-> "driver", users |-> {t}]]
            /\ userdir' = [userdir EXCEPT ![t] = d]
            /\ procs' = procs \cup {t}
            /\ acquired' = [acquired EXCEPT ![t] = TRUE]
            /\ pc' = [pc EXCEPT ![t] = "t_get"]
       \/ /\ pc' = [pc EXCEPT ![t] = "raised"]
          /\ UNCHANGED <<procs, profiles, acquired, userdir>>
    /\ UNCHANGED <<prov, exc, scrolls, ctl, ctlN, attempts>>
    /\ UNCHANGED <<active, pipeVars, storeVars>>
    /\ UNCHANGED <<callVars, pureVars>>

(* ---------------------------------------------------------------------- *)
(* try ... finally of fetch_products_for_category                          *)
(* ---------------------------------------------------------------------- *)

elp_no_finally(raising) == IF raising THEN "raised" ELSE "e_quit"

\* elpatron.py:116,142  where control goes when the try body ends
elp_finally(raising) == "e_quit"

\* touche.py:108,133
tch_finally(raising) == "t_quit"

\* the try body of thread t ends at pc value q, by an exception or not
Leave(t, q, raising) ==
    /\ pc' = [pc EXCEPT ![t] = q]
    /\ exc' = [exc EXCEPT ![t] = raising]

\* elpatron.py:117  driver.get(category_url); time.sleep(3)
elp_get(t) ==
    /\ pc[t] = "e_get"
    /\ \/ /\ pc' = [pc EXCEPT ![t] = "e_source"]
          /\ UNCHANGED exc
       \/ Leave(t, elp_finally(TRUE), TRUE)
    /\ UNCHANGED <<prov, acquired, userdir, scrolls, ctl, ctlN, attempts, procs, profiles>>
    /\ UNCHANGED <<active, pipeVars, storeVars>>
    /\ UNCHANGED <<callVars, pureVars>>

\* elpatron.py:119-141  driver.page_source, parse (item errors are swallowed), return
elp_source(t) ==
    /\ pc[t] = "e_source"
    /\ \/ Leave(t, elp_finally(FALSE), FALSE)
       \/ Leave(t, elp_finally(TRUE), TRUE)
    /\ UNCHANGED <<prov, acquired, userdir, scrolls, ctl, ctlN, attempts, procs, profiles>>
    /\ UNCHANGED <<active, pipeVars, storeVars>>
    /\ UNCHANGED <<callVars, pureVars>>

\* elpatron.py:144-146  try: driver.quit()  finally: ...
elp_quit(t) ==
    /\ pc[t] = "e_quit"
    /\ procs' = procs \ {t}
    /\ \/ UNCHANGED exc
       \/ exc' = [exc EXCEPT ![t] = TRUE]       \* quit() raised
    /\ pc' = [pc EXCEPT ![t] = "e_rmtree"]
    /\ UNCHANGED <<prov, acquired, userdir, scrolls, ctl, ctlN, attempts, profiles>>
    /\ UNCHANGED <<active, pipeVars, storeVars>>
    /\ UNCHANGED <<callVars, pureVars>>

\* elpatron.py:147-149  shutil.rmtree(ud, ignore_errors=True)
elp_rmtree(t) ==
    /\ pc[t] = "e_rmtree"
    /\ profiles' = [profiles EXCEPT ![userdir[t]] = NoDir]
    /\ pc' = [pc EXCEPT ![t] = IF exc[t] THEN "raised" ELSE "returned"]
    /\ UNCHANGED <<prov, exc, acquired, userdir, scrolls, ctl, ctlN, attempts, procs>>
    /\ UNCHANGED <<active, pipeVars, storeVars>>
    /\ UNCHANGED <<callVars, pureVars>>

\* touche.py:109  driver.get(category_url)
tch_get(t) ==
    /\ pc[t] = "t_get"
    /\ \/ /\ pc' = [pc EXCEPT ![t] = "t_wait"]
          /\ UNCHANGED exc
       \/ Leave(t, tch_finally(TRUE), TRUE)
    /\ UNCHANGED <<prov, acquired, userdir, scrolls, ctl, ctlN, attempts, procs, profiles>>
    /\ UNCHANGED <<active, pipeVars, storeVars>>
    /\ UNCHANGED <<callVars, pureVars>>

\* touche.py:112-114  WebDriverWait(driver, 20).until(presence of div.js-product-table)
tch_wait(t) ==
    /\ pc[t] = "t_wait"
    /\ \/ /\ pc' = [pc EXCEPT ![t] = "t_scroll"]
          /\ UNCHANGED exc
       \/ Leave(t, tch_finally(TRUE), TRUE)      \* TimeoutException
    /\ scrolls' = [scrolls EXCEPT ![t] = 0]
    /\ UNCHANGED <<prov, acquired, userdir, ctl, ctlN, attempts, procs, profiles>>
    /\ UNCHANGED <<active, pipeVars, storeVars>>
    /\ UNCHANGED <<callVars, pureVars>>

\* touche.py:117-119  for _ in range(12): execute_script(scrollBy); sleep
tch_scroll(t) ==
    /\ pc[t] = "t_scroll"
    /\ \/ /\ scrolls[t] < ScrollIterations
          /\ scrolls' = [scrolls EXCEPT ![t] = @ + 1]
          /\ UNCHANGED <<pc, exc, ctl, ctlN, attempts>>
       \/ /\ scrolls[t] < ScrollIterations
          /\ Leave(t, tch_finally(TRUE), TRUE)
          /\ UNCHANGED <<scrolls, ctl, ctlN, attempts>>
       \/ /\ scrolls[t] = ScrollIterations
          \* the page's "load more" control: absent (0), clickable n times, or always
          /\ \E n \in {Always} \cup (0..MaxN) :
                /\ ctl' = [ctl EXCEPT ![t] = n]
                /\ ctlN' = [ctlN EXCEPT ![t] = n]
          /\ attempts' = [attempts EXCEPT ![t] = 0]
          /\ pc' = [pc EXCEPT ![t] = "t_btn_wait"]
          /\ UNCHANGED <<exc, scrolls>>
    /\ UNCHANGED <<prov, acquired, userdir, procs, profiles>>
    /\ UNCHANGED <<active, pipeVars, storeVars>>
    /\ UNCHANGED <<callVars, pureVars>>

(* ---------------------------------------------------------------------- *)
(* Pagination loop of touche.fetch_products_for_category                   *)
(* ---------------------------------------------------------------------- *)

tch_except_retry == "t_btn_wait"

\* touche.py:129-130  except Exception: break
tch_except == "t_source"

\* touche.py:124-126  btn = WebDriverWait(driver, 5).until(element_to_be_clickable(...))
tch_btn_wait(t) ==
    /\ pc[t] = "t_btn_wait"
    /\ attempts' = [attempts EXCEPT ![t] = Min(@ + 1, MaxAttempts)]
    /\ \/ /\ ctl[t] # 0
          /\ pc' = [pc EXCEPT ![t] = "t_btn_click"]
       \/ /\ ctl[t] = 0                           \* TimeoutException: not clickable
          /\ pc' = [pc EXCEPT ![t] = tch_except]
       \/ /\ ctl[t] # 0                           \* another WebDriverException
          /\ pc' = [pc EXCEPT ![t] = tch_except]
    /\ UNCHANGED <<prov, exc, acquired, userdir, scrolls, ctl, ctlN, procs, profiles>>
    /\ UNCHANGED <<active, pipeVars, storeVars>>
    /\ UNCHANGED <<callVars, pureVars>>

\* touche.py:127-128  btn.click(); time.sleep(1)
tch_btn_click(t) ==
    /\ pc[t] = "t_btn_click"
    /\ \/ /\ ctl' = [ctl EXCEPT ![t] = IF @ > 0 THEN @ - 1 ELSE @]
          /\ pc' = [pc EXCEPT ![t] = "t_btn_wait"]
       \/ /\ pc' = [pc EXCEPT ![t] = tch_except]  \* click() raised
          /\ UNCHANGED ctl
    /\ UNCHANGED <<prov, exc, acquired, userdir, scrolls, ctlN, attempts, procs, profiles>>
    /\ UNCHANGED <<active, pipeVars, storeVars>>
    /\ UNCHANGED <<callVars, pureVars>>

\* touche.py:132  html = driver.page_source
tch_source(t) ==
    /\ pc[t] = "t_source"
    /\ \/ Leave(t, tch_finally(FALSE), FALSE)
       \/ Leave(t, tch_finally(TRUE), TRUE)
    /\ UNCHANGED <<prov, acquired, userdir, scrolls, ctl, ctlN, attempts, procs, profiles>>
    /\ UNCHANGED <<active, pipeVars, storeVars>>
    /\ UNCHANGED <<callVars, pureVars>>

\* touche.py:133-154  finally: try: driver.quit() except Exception: pass; then parse, return
tch_quit(t) ==
    /\ pc[t] = "t_quit"
    /\ procs' = procs \ {t}
    /\ profiles' = [profiles EXCEPT ![userdir[t]] = NoDir]
    /\ pc' = [pc EXCEPT ![t] = IF exc[t] THEN "raised" ELSE "returned"]
    /\ scrolls' = [scrolls EXCEPT ![t] = 0]
    /\ ctl' = [ctl EXCEPT ![t] = 0]
    /\ ctlN' = [ctlN EXCEPT ![t] = 0]
    /\ attempts' = [attempts EXCEPT ![t] = 0]
    /\ UNCHANGED <<prov, exc, acquired, userdir>>
    /\ UNCHANGED <<active, pipeVars, storeVars>>
    /\ UNCHANGED <<callVars, pureVars>>

(* ---------------------------------------------------------------------- *)
(* Strings: sequences of tokens (a character, or a group such as ".jpg")   *)
(* ---------------------------------------------------------------------- *)

Range(s) == {s[i] : i \in DOMAIN s}

SeqsUpTo(S, n) == UNION {[1..k -> S] : k \in 0..n}

Whitespace == {" ", "\t"}

\* the character class of re.sub(r'[\\/*?:"<>|]', "", name)
ForbiddenChars == {"\\", "/", "*", "?", ":", "\"", "<", ">", "|"}

RECURSIVE lstrip(_)
lstrip(s) == IF s # <<>> /\ Head(s) \in Whitespace THEN lstrip(Tail(s)) ELSE s

RECURSIVE rstrip(_)
rstrip(s) ==
    IF s # <<>> /\ s[Len(s)] \in Whitespace THEN rstrip(SubSeq(s, 1, Len(s) - 1)) ELSE s

\* str.strip()
strip(s) == rstrip(lstrip(s))

lower(c) == CASE c = "A" -> "a" [] c = "B" -> "b" [] c = "Hidden" -> "hidden" [] OTHER -> c

\* str.casefold()
casefold(s) == [i \in DOMAIN s |-> lower(s[i])]

\* touche._norm
norm(s) == casefold(strip(s))

sanitize_no_replace(name) ==
    strip(SelectSeq(name, LAMBDA c : c \notin ForbiddenChars))

\* sanitize_filename: re.sub(forbidden, "", name).strip().replace(" ", "_")
sanitize_filename(name) ==
    LET cleaned  == SelectSeq(name, LAMBDA c : c \notin ForbiddenChars)
        stripped == strip(cleaned)
    IN  [i \in DOMAIN stripped |-> IF stripped[i] = " " THEN "_" ELSE stripped[i]]

\* urlparse(u).path: without scheme and host, query and fragment
urlpath(u) ==
    LET rest == IF u # <<>> /\ Head(u) \in {"https://elpatron", "https://touche", "https://cdn"}
                THEN Tail(u) ELSE u
        cut  == {i \in DOMAIN rest : rest[i] \in {"?", "#"}}
    IN  IF cut = {} THEN rest
        ELSE SubSeq(rest, 1, (CHOOSE i \in cut : \A j \in cut : i <= j) - 1)

\* os.path.basename
basename(p) ==
    LET sl == {i \in DOMAIN p : p[i] = "/"}
    IN  IF sl = {} THEN p
        ELSE SubSeq(p, (CHOOSE i \in sl : \A j \in sl : j <= i) + 1, Len(p))

\* BASE_URL of the provider module
BASE_URL(p) == IF p = "elpatron" THEN "https://elpatron" ELSE "https://touche"

\* tokens that hold "://": a scheme and a host
AbsTokens == {"https://elpatron", "https://touche", "https://cdn"}

\* tokens that are the scheme of a script pseudo-URL, which has no hierarchy
ScriptSchemes == {"javascript:", "JavaScript:"}

\* urljoin(BASE_URL, src)
urljoin(p, src) ==
    IF src # <<>> /\ Head(src) \in AbsTokens \cup ScriptSchemes THEN src
    ELSE IF src # <<>> /\ Head(src) = "/" THEN <<BASE_URL(p)>> \o src
    ELSE <<BASE_URL(p), "/">> \o src

SizeSuffixes == {"-200-200", "-1024-1024"}

Extensions == {".jpg"}

\* touche.py:215-216  re.sub(r'-(\d+)-(\d+)(\.\w+)$', r'-1024-1024\3', src)
upgrade_src(src) ==
    IF "-1024-1024" \in Range(src) THEN src
    ELSE IF Len(src) >= 2 /\ src[Len(src)] \in Extensions /\ src[Len(src) - 1] \in SizeSuffixes
         THEN [src EXCEPT ![Len(src) - 1] = "-1024-1024"]
         ELSE src

\* the URL requested for an image candidate
image_url(p, src) ==
    IF p = "elpatron" THEN urljoin(p, src) ELSE urljoin(p, upgrade_src(src))

\* fname = sanitize_filename(nombre) + "_" + os.path.basename(urlparse(...).path)
fname(p, nombre, src) ==
    sanitize_filename(nombre) \o <<"_">> \o
        basename(urlpath(IF p = "elpatron" THEN src ELSE image_url(p, src)))

\* local_path = os.path.join(ASSETS_DIR, fname), ASSETS_DIR = product_assets/<provider>
local_path(p, nombre, src) == <<"product_assets", "/", p, "/">> \o fname(p, nombre, src)

(* ---------------------------------------------------------------------- *)
(* The provider sites                                                      *)
(* ---------------------------------------------------------------------- *)

\* calls of update_assets_for_category in one behaviour
MaxRuns == 2

\* products a listing page shows
MaxStubs == 2

\* tokens of a category_name argument
MaxNameLen == 2

\* entries of a provider's menu
MaxMenu == 2

\* direct calls of get_or_create_category / refresh_categories in one behaviour
MaxCalls == 2

\* acquisitions of one file whose outcome is recorded
AcqCap == 2

NameInputs == SeqsUpTo({"a", "A", " "}, MaxNameLen)

\* anchor texts, get_text(strip=True)
MenuNames == {<<"a">>, <<"A">>}

CatUrl(i) == <<"/", "cat", i>>

\* results of fetch_categories: [{nombre, url}, ...] in menu order
Menus ==
    {[i \in DOMAIN ns |-> [nombre |-> ns[i], url |-> CatUrl(i)]] :
        ns \in SeqsUpTo(MenuNames, MaxMenu)}

NoCat == [nombre |-> <<>>, url |-> <<>>]

NoSrc == <<>>

StubPool ==
    { [nombre |-> <<"a", " ", "b">>, link |-> "p1"],
      [nombre |-> <<"a", "_", "b">>, link |-> "p2"] }

\* what the detail page of a product holds
Detail(link) ==
    IF link = "p1"
    THEN [descripcion |-> <<"d">>, variaciones |-> <<"v">>,
          imgs |-> << <<"/", "i", "/", "x", "-200-200", ".jpg">>,
                      <<"/", "i", "/", "y", ".jpg", "?", "v">> >>]
    ELSE [descripcion |-> <<>>, variaciones |-> <<>>,
          imgs |-> << NoSrc, <<"/", "j", "/", "x", "-200-200", ".jpg">> >>]

Listings == SeqsUpTo(StubPool, MaxStubs)

AllSrcs == UNION {Range(Detail(st.link).imgs) : st \in StubPool} \ {NoSrc}

\* every local path an acquisition can compute
FilePaths ==
    {local_path(q[1], q[2].nombre, q[3]) :
        q \in {x \in Providers \X StubPool \X AllSrcs : x[3] \in Range(Detail(x[2].link).imgs)}}

(* ---------------------------------------------------------------------- *)
(* Category Registrar: table categories                                    *)
(* ---------------------------------------------------------------------- *)

RowsOf(cats, p, n) == {r \in cats : r.provider = p /\ r.name = n}

NewId(cats) == Cardinality(cats) + 1

insert_always(cats, p, n, u) ==
    cats \cup {[id |-> NewId(cats), provider |-> p, name |-> n, url |-> u]}

\* INSERT INTO categories ... ON DUPLICATE KEY UPDATE url = VALUES(url)
\* (unique index on provider + name, elpatron.py:50)
upsert(cats, p, n, u) ==
    IF RowsOf(cats, p, n) = {}
    THEN cats \cup {[id |-> NewId(cats), provider |-> p, name |-> n, url |-> u]}
    ELSE {IF r \in RowsOf(cats, p, n) THEN [r EXCEPT !.url = u] ELSE r : r \in cats}

\* get_or_create_category: conn.execute(insert_stmt, ...)
goc_insert(t) ==
    /\ pc[t] = "g_insert"
    /\ categories' = upsert(categories, garg[t][1][1], garg[t][1][2], garg[t][1][3])
    /\ pc' = [pc EXCEPT ![t] = "g_select"]
    /\ UNCHANGED <<prov, exc, acquired, userdir, scrolls, ctl, ctlN, attempts, procs, profiles>>
    /\ UNCHANGED <<active, pipeVars>>
    /\ UNCHANGED <<garg, snapshots, files, acqlog, runlog, retIds>>
    /\ UNCHANGED <<callVars, pureVars>>

\* get_or_create_category: row = conn.execute(select_stmt, ...).first(); return row.id
goc_select(t) ==
    /\ pc[t] = "g_select"
    /\ \E r \in RowsOf(categories, garg[t][1][1], garg[t][1][2]) :
        /\ ucat' = [ucat EXCEPT ![t] = r.id]
        /\ retIds' = retIds \cup {<<r.provider, r.name, r.id>>}
    /\ garg' = [garg EXCEPT ![t] = <<>>]
    /\ pc' = [pc EXCEPT ![t] = IF op[t] = "update_assets" THEN "u_listing" ELSE "returned"]
    /\ UNCHANGED <<prov, exc, acquired, userdir, scrolls, ctl, ctlN, attempts, procs, profiles>>
    /\ UNCHANGED <<active, op, runs, uname, ucats, umatch, ustubs, ui, uj, uimgs, ugot, ufail>>
    /\ UNCHANGED <<categories, snapshots, files, acqlog, runlog>>
    /\ UNCHANGED <<callVars, pureVars>>

\* a direct call get_or_create_category(provider, name, url)
goc_call(t) ==
    /\ t \in active
    /\ pc[t] \in {"idle", "returned", "raised"}
    /\ runs < MaxCalls
    /\ runs' = runs + 1
    /\ \E p \in Providers, n \in MenuNames, i \in 1..MaxMenu :
        /\ prov' = [prov EXCEPT ![t] = p]
        /\ usite' = [usite EXCEPT ![t] = p]
        /\ garg' = [garg EXCEPT ![t] = << <<p, n, CatUrl(i)>> >>]
    /\ op' = [op EXCEPT ![t] = "get_or_create_category"]
    /\ pc' = [pc EXCEPT ![t] = "g_insert"]
    /\ UNCHANGED <<exc, acquired, userdir, scrolls, ctl, ctlN, attempts, procs, profiles>>
    /\ UNCHANGED <<active, uname, ucats, umatch, ucat, ustubs, ui, uj, uimgs, ugot, ufail>>
    /\ UNCHANGED <<categories, snapshots, files, acqlog, runlog, retIds>>
    /\ UNCHANGED <<udrop, udata, pureVars>>

\* the modules scrapper_core.SCRAPERS does not register
Sites == Providers \cup {"otro"}

NoScraper == "ValueError"

get_scraper_default(site) == IF site \in Providers THEN site ELSE "elpatron"

\* scrapper_core.get_scraper: SCRAPERS[site], KeyError raised again as ValueError
get_scraper(site) == IF site \in Providers THEN site ELSE NoScraper

\* main.refresh_categories(site): live = core.fetch_categories(site)
ref_call(t) ==
    /\ t \in active
    /\ pc[t] \in {"idle", "returned", "raised"}
    /\ runs < MaxCalls
    /\ runs' = runs + 1
    /\ op' = [op EXCEPT ![t] = "refresh_categories"]
    /\ \E site \in Sites :
        /\ usite' = [usite EXCEPT ![t] = site]
        /\ \/ /\ get_scraper(site) = NoScraper          \* HTTPException(404)
              /\ pc' = [pc EXCEPT ![t] = "raised"]
              /\ UNCHANGED <<prov, garg>>
           \/ /\ get_scraper(site) # NoScraper
              /\ prov' = [prov EXCEPT ![t] = get_scraper(site)]
              /\ \/ \E m \in Menus :
                      /\ garg' = [garg EXCEPT ![t] =
                            [i \in DOMAIN m |-> <<get_scraper(site), m[i].nombre, m[i].url>>]]
                      /\ pc' = [pc EXCEPT ![t] = "r_upsert"]
                 \/ /\ pc' = [pc EXCEPT ![t] = "raised"]      \* the homepage GET failed
                    /\ UNCHANGED garg
    /\ UNCHANGED <<exc, acquired, userdir, scrolls, ctl, ctlN, attempts, procs, profiles>>
    /\ UNCHANGED <<active, uname, ucats, umatch, ucat, ustubs, ui, uj, uimgs, ugot, ufail>>
    /\ UNCHANGED <<categories, snapshots, files, acqlog, runlog, retIds>>
    /\ UNCHANGED <<udrop, udata, pureVars>>

\* main.py:70-76  for c in live: conn.execute(upsert, ...); then the SELECT and return
ref_upsert(t) ==
    /\ pc[t] = "r_upsert"
    /\ \/ /\ garg[t] # <<>>
          /\ categories' = upsert(categories, garg[t][1][1], garg[t][1][2], garg[t][1][3])
          /\ garg' = [garg EXCEPT ![t] = Tail(@)]
          /\ UNCHANGED pc
       \/ /\ garg[t] = <<>>
          /\ pc' = [pc EXCEPT ![t] = "returned"]
          /\ UNCHANGED <<categories, garg>>
    /\ UNCHANGED <<prov, exc, acquired, userdir, scrolls, ctl, ctlN, attempts, procs, profiles>>
    /\ UNCHANGED <<active, pipeVars>>
    /\ UNCHANGED <<snapshots, files, acqlog, runlog, retIds>>
    /\ UNCHANGED <<callVars, pureVars>>

(* ---------------------------------------------------------------------- *)
(* update_assets_for_category                                              *)
(* ---------------------------------------------------------------------- *)

\* next((c for c in cats if ...), None): the first entry among the hits
FirstWhere(cats, hits) ==
    IF hits = {} THEN NoCat ELSE cats[CHOOSE i \in hits : \A j \in hits : i <= j]

\* elpatron.py:177  next((c for c in cats if c["nombre"] == category_name), None)
elp_match(cats, category_name) ==
    FirstWhere(cats, {i \in DOMAIN cats : cats[i].nombre = category_name})

tch_match_exact(cats, category_name) ==
    FirstWhere(cats, {i \in DOMAIN cats : cats[i].nombre = category_name})

\* touche.py:181-182  next((c for c in cats if _norm(c['nombre']) == wanted), None)
tch_match(cats, category_name) ==
    FirstWhere(cats, {i \in DOMAIN cats : norm(cats[i].nombre) = norm(category_name)})

Match(p, cats, category_name) ==
    IF p = "elpatron" THEN elp_match(cats, category_name) ELSE tch_match(cats, category_name)

\* the run of thread t in runlog
CurRun(t) ==
    LET mine == {i \in DOMAIN runlog : runlog[i].t = t}
    IN  CHOOSE i \in mine : \A j \in mine : j <= i

run_status(t, s) == [runlog EXCEPT ![CurRun(t)].status = s]

\* the call ends by raising
Fail(t, why) ==
    /\ pc' = [pc EXCEPT ![t] = "failed"]
    /\ ufail' = [ufail EXCEPT ![t] = why]
    /\ runlog' = run_status(t, "failed")

\* scrapper_core.update_assets(site, category_name) is called on thread t:
\* scraper = get_scraper(site); scraper.update_assets_for_category(category_name)
upd_call(t) ==
    /\ t \in active
    /\ pc[t] \in {"idle", "done", "failed"}
    /\ runs < MaxRuns
    /\ runs' = runs + 1
    /\ \E site \in Sites, n \in NameInputs :
        /\ usite' = [usite EXCEPT ![t] = site]
        /\ uname' = [uname EXCEPT ![t] = n]
        /\ \/ /\ get_scraper(site) = NoScraper          \* ValueError, HTTPException(404)
              /\ pc' = [pc EXCEPT ![t] = "failed"]
              /\ ufail' = [ufail EXCEPT ![t] = "unknown_site"]
              /\ UNCHANGED <<prov, runlog>>
           \/ /\ get_scraper(site) # NoScraper
              /\ prov' = [prov EXCEPT ![t] = get_scraper(site)]
              /\ runlog' = Append(runlog, [t |-> t, prov |-> get_scraper(site), cat |-> NoCat,
                                            listing |-> <<>>, container |-> "unknown",
                                            base |-> Len(snapshots), status |-> "running"])
              /\ pc' = [pc EXCEPT ![t] = "u_fetch_categories"]
              /\ ufail' = [ufail EXCEPT ![t] = ""]
    /\ op' = [op EXCEPT ![t] = "update_assets"]
    /\ ucats' = [ucats EXCEPT ![t] = <<>>]
    /\ umatch' = [umatch EXCEPT ![t] = NoCat]
    /\ ucat' = [ucat EXCEPT ![t] = 0]
    /\ ustubs' = [ustubs EXCEPT ![t] = <<>>]
    /\ ui' = [ui EXCEPT ![t] = 0]
    /\ uj' = [uj EXCEPT ![t] = 0]
    /\ uimgs' = [uimgs EXCEPT ![t] = <<>>]
    /\ ugot' = [ugot EXCEPT ![t] = FALSE]
    /\ udrop' = [udrop EXCEPT ![t] = {}]
    /\ udata' = [udata EXCEPT ![t] = <<>>]
    /\ profiles' = Relabel(t)
    /\ UNCHANGED <<exc, acquired, userdir, scrolls, ctl, ctlN, attempts, procs>>
    /\ UNCHANGED <<active, garg, categories, snapshots, files, acqlog, retIds>>
    /\ UNCHANGED pureVars

upd_fetch_categories_unregistered(t) ==
    /\ pc[t] = "u_fetch_categories"
    /\ \/ /\ Fail(t, "fetch")                    \* requests.get / raise_for_status
          /\ UNCHANGED <<ucats, umatch, garg>>
       \/ \E m \in Menus :
            /\ Match(prov[t], m, uname[t]) = NoCat
            /\ ucats' = [ucats EXCEPT ![t] = m]
            /\ Fail(t, "notfound")
            /\ UNCHANGED <<umatch, garg>>
       \/ \E m \in Menus :
            LET match == Match(prov[t], m, uname[t]) IN
            /\ match # NoCat
            /\ ucats' = [ucats EXCEPT ![t] = m]
            /\ umatch' = [umatch EXCEPT ![t] = match]
            /\ UNCHANGED garg
            /\ pc' = [pc EXCEPT ![t] = "u_listing"]
            /\ runlog' = [runlog EXCEPT ![CurRun(t)].cat = match]
            /\ UNCHANGED ufail
    /\ UNCHANGED <<prov, exc, acquired, userdir, scrolls, ctl, ctlN, attempts, procs, profiles>>
    /\ UNCHANGED <<active, op, runs, uname, ucat, ustubs, ui, uj, uimgs, ugot>>
    /\ UNCHANGED <<categories, snapshots, files, acqlog, retIds>>
    /\ UNCHANGED <<callVars, pureVars>>

upd_fetch_categories_register_first(t) ==
    /\ pc[t] = "u_fetch_categories"
    /\ \/ /\ Fail(t, "fetch")
          /\ UNCHANGED <<ucats, umatch, garg, categories>>
       \/ \E m \in Menus :
            /\ Match(prov[t], m, uname[t]) = NoCat
            /\ ucats' = [ucats EXCEPT ![t] = m]
            /\ Fail(t, "notfound")
            /\ categories' = upsert(categories, prov[t], uname[t], <<>>)
            /\ UNCHANGED <<umatch, garg>>
       \/ \E m \in Menus :
            LET match == Match(prov[t], m, uname[t]) IN
            /\ match # NoCat
            /\ ucats' = [ucats EXCEPT ![t] = m]
            /\ umatch' = [umatch EXCEPT ![t] = match]
            /\ garg' = [garg EXCEPT ![t] =
                  << <<prov[t], IF prov[t] = "elpatron" THEN uname[t] ELSE match.nombre,
                       match.url>> >>]
            /\ pc' = [pc EXCEPT ![t] = "g_insert"]
            /\ runlog' = [runlog EXCEPT ![CurRun(t)].cat = match]
            /\ UNCHANGED <<ufail, categories>>
    /\ UNCHANGED <<prov, exc, acquired, userdir, scrolls, ctl, ctlN, attempts, procs, profiles>>
    /\ UNCHANGED <<active, op, runs, uname, ucat, ustubs, ui, uj, uimgs, ugot>>
    /\ UNCHANGED <<snapshots, files, acqlog, retIds>>
    /\ UNCHANGED <<callVars, pureVars>>

\* cats = fetch_categories(); match = next(...); if not match: raise ValueError
upd_fetch_categories(t) ==
    /\ pc[t] = "u_fetch_categories"
    /\ \/ /\ Fail(t, "fetch")                    \* requests.get / raise_for_status
          /\ UNCHANGED <<ucats, umatch, garg>>
       \/ \E m \in Menus :
            /\ Match(prov[t], m, uname[t]) = NoCat
            /\ ucats' = [ucats EXCEPT ![t] = m]
            /\ Fail(t, "notfound")
            /\ UNCHANGED <<umatch, garg>>
       \/ \E m \in Menus :
            LET match == Match(prov[t], m, uname[t]) IN
            /\ match # NoCat
            /\ ucats' = [ucats EXCEPT ![t] = m]
            /\ umatch' = [umatch EXCEPT ![t] = match]
            \* elpatron.py:182 registers category_name, touche.py:187 match['nombre']
            /\ garg' = [garg EXCEPT ![t] =
                  << <<prov[t], IF prov[t] = "elpatron" THEN uname[t] ELSE match.nombre,
                       match.url>> >>]
            /\ pc' = [pc EXCEPT ![t] = "g_insert"]
            /\ runlog' = [runlog EXCEPT ![CurRun(t)].cat = match]
            /\ UNCHANGED ufail
    /\ UNCHANGED <<prov, exc, acquired, userdir, scrolls, ctl, ctlN, attempts, procs, profiles>>
    /\ UNCHANGED <<active, op, runs, uname, ucat, ustubs, ui, uj, uimgs, ugot>>
    /\ UNCHANGED <<categories, snapshots, files, acqlog, retIds>>
    /\ UNCHANGED <<callVars, pureVars>>

\* what fetch_products_for_category returns once the page is loaded.
\* touche.py:112-114 waits up to 20 s for div.js-product-table and raises when it never
\* appears; elpatron.py:118-122 sleeps 3 s and selects ".product" from whatever is there
listing_results(p, container) ==
    IF container = "present" THEN Listings
    ELSE IF p = "touche" THEN {} ELSE {<<>>}

\* productos = fetch_products_for_category(match["url"]): the whole call
upd_listing(t) ==
    /\ pc[t] = "u_listing"
    /\ uname' = [uname EXCEPT ![t] = <<>>]       \* category_name and cats are not read again
    /\ ucats' = [ucats EXCEPT ![t] = <<>>]
    /\ \/ \E l \in listing_results(prov[t], "present") :
            /\ ustubs' = [ustubs EXCEPT ![t] = l]
            /\ ui' = [ui EXCEPT ![t] = 1]
            /\ pc' = [pc EXCEPT ![t] = IF l = <<>> THEN "done" ELSE "u_detail"]
            /\ runlog' = [runlog EXCEPT ![CurRun(t)].listing = l,
                                        ![CurRun(t)].container = "present",
                                        ![CurRun(t)].status =
                                            IF l = <<>> THEN "done" ELSE "running"]
            /\ UNCHANGED <<ufail, profiles>>
       \/ \E l \in listing_results(prov[t], "absent") :   \* the page never shows the listing
            /\ ustubs' = [ustubs EXCEPT ![t] = l]
            /\ ui' = [ui EXCEPT ![t] = 1]
            /\ pc' = [pc EXCEPT ![t] = "done"]
            /\ runlog' = [runlog EXCEPT ![CurRun(t)].listing = l,
                                        ![CurRun(t)].container = "absent",
                                        ![CurRun(t)].status = "done"]
            /\ UNCHANGED <<ufail, profiles>>
       \/ /\ listing_results(prov[t], "absent") = {}      \* the bounded wait timed out
          /\ pc' = [pc EXCEPT ![t] = "failed"]
          /\ ufail' = [ufail EXCEPT ![t] = "listing"]
          /\ runlog' = [runlog EXCEPT ![CurRun(t)].container = "absent",
                                      ![CurRun(t)].status = "failed"]
          /\ UNCHANGED <<ustubs, ui, profiles>>
       \/ /\ Fail(t, "listing")                  \* raised after the session was acquired
          /\ UNCHANGED <<ustubs, ui, profiles>>
       \/ /\ Fail(t, "browser")                  \* webdriver.Chrome(...) raised
          /\ \E d \in (IF prov[t] = "elpatron" /\ MkdtempCandidates("chrome-profiles") # {}
                       THEN MkdtempCandidates("chrome-profiles") ELSE {NoPath}) :
                profiles' = IF d = NoPath THEN profiles
                            ELSE [profiles EXCEPT ![d] = [by |-> t, users |-> {}]]
          /\ UNCHANGED <<ustubs, ui>>
    /\ UNCHANGED <<prov, exc, acquired, userdir, scrolls, ctl, ctlN, attempts, procs>>
    /\ UNCHANGED <<active, op, runs, umatch, ucat, uj, uimgs, ugot>>
    /\ UNCHANGED <<garg, categories, snapshots, files, acqlog, retIds>>
    /\ UNCHANGED <<callVars, pureVars>>

CurStub(t) == ustubs[t][ui[t]]

CurImgs(t) == Detail(CurStub(t).link).imgs

CurSrc(t) == CurImgs(t)[uj[t]]

CurPath(t) == local_path(prov[t], CurStub(t).nombre, CurSrc(t))

upd_detail_swallow(t) ==
    /\ pc[t] = "u_detail"
    /\ \/ /\ ufail' = [ufail EXCEPT ![t] = "detail"]
          /\ pc' = [pc EXCEPT ![t] = "u_save"]
          /\ UNCHANGED <<uj, uimgs, runlog>>
       \/ /\ uj' = [uj EXCEPT ![t] = 1]
          /\ uimgs' = [uimgs EXCEPT ![t] = <<>>]
          /\ pc' = [pc EXCEPT ![t] = "u_img"]
          /\ UNCHANGED <<ufail, runlog>>
    /\ UNCHANGED <<prov, exc, acquired, userdir, scrolls, ctl, ctlN, attempts, procs, profiles>>
    /\ UNCHANGED <<active, op, runs, uname, ucats, umatch, ucat, ustubs, ui, ugot>>
    /\ UNCHANGED <<garg, categories, snapshots, files, acqlog, retIds>>
    /\ udrop' = [udrop EXCEPT ![t] = {}]
    /\ UNCHANGED <<usite, udata, pureVars>>

\* resp = requests.get(link, ...); resp.raise_for_status(); parse the detail page
upd_detail(t) ==
    /\ pc[t] = "u_detail"
    /\ \/ /\ Fail(t, "detail")
          /\ UNCHANGED <<uj, uimgs>>
       \/ /\ uj' = [uj EXCEPT ![t] = 1]
          /\ uimgs' = [uimgs EXCEPT ![t] = <<>>]
          /\ pc' = [pc EXCEPT ![t] = "u_img"]
          /\ UNCHANGED <<ufail, runlog>>
    /\ UNCHANGED <<prov, exc, acquired, userdir, scrolls, ctl, ctlN, attempts, procs, profiles>>
    /\ UNCHANGED <<active, op, runs, uname, ucats, umatch, ucat, ustubs, ui, ugot>>
    /\ UNCHANGED <<garg, categories, snapshots, files, acqlog, retIds>>
    /\ udrop' = [udrop EXCEPT ![t] = {}]
    /\ UNCHANGED <<usite, udata, pureVars>>

path_exists_never(f) == FALSE

path_exists_always(f) == TRUE

\* os.path.exists(local_path)
path_exists(f) == files[f] # "absent"

\* the outcome of an acquisition of file f, kept for the first AcqCap of them
Logged(f, got, res) ==
    IF Len(acqlog[f]) < AcqCap
    THEN [acqlog EXCEPT ![f] = Append(@, [got |-> got, res |-> res])]
    ELSE acqlog

\* for img in imgs: src, url, fname, local_path; if not os.path.exists(local_path): ...
upd_img(t) ==
    /\ pc[t] = "u_img"
    /\ \/ /\ uj[t] > Len(CurImgs(t))              \* the loop is over
          /\ pc' = [pc EXCEPT ![t] = "u_save"]
          /\ UNCHANGED <<uj, uimgs, acqlog>>
       \/ /\ uj[t] <= Len(CurImgs(t))
          /\ CurSrc(t) = NoSrc                    \* if not src: continue
          /\ uj' = [uj EXCEPT ![t] = @ + 1]
          /\ UNCHANGED <<pc, uimgs, acqlog>>
       \/ /\ uj[t] <= Len(CurImgs(t))
          /\ CurSrc(t) # NoSrc
          /\ path_exists(CurPath(t))              \* dedup: image_paths.append(local_path)
          /\ uimgs' = [uimgs EXCEPT ![t] = Append(@, CurPath(t))]
          /\ uj' = [uj EXCEPT ![t] = @ + 1]
          /\ acqlog' = Logged(CurPath(t), FALSE, "path")
          /\ UNCHANGED pc
       \/ /\ uj[t] <= Len(CurImgs(t))
          /\ CurSrc(t) # NoSrc
          /\ ~path_exists(CurPath(t))
          /\ pc' = [pc EXCEPT ![t] = "u_img_get"]
          /\ UNCHANGED <<uj, uimgs, acqlog>>
    /\ ugot' = [ugot EXCEPT ![t] = FALSE]
    /\ UNCHANGED <<prov, exc, acquired, userdir, scrolls, ctl, ctlN, attempts, procs, profiles>>
    /\ UNCHANGED <<active, op, runs, uname, ucats, umatch, ucat, ustubs, ui, ufail>>
    /\ UNCHANGED <<garg, categories, snapshots, files, runlog, retIds>>
    /\ UNCHANGED <<callVars, pureVars>>

\* an exception inside the download: elpatron.py:218-220 except Exception: continue;
\* touche.py:222-226 has no handler, the exception leaves update_assets_for_category
image_error(t) ==
    /\ udrop' = [udrop EXCEPT ![t] = @ \cup {uj[t]}]
    /\ udata' = [udata EXCEPT ![t] = <<>>]
    /\ IF prov[t] = "elpatron"
       THEN /\ uj' = [uj EXCEPT ![t] = @ + 1]
            /\ pc' = [pc EXCEPT ![t] = "u_img"]
            /\ acqlog' = Logged(CurPath(t), TRUE, "none")
            /\ UNCHANGED <<ufail, runlog>>
       ELSE /\ Fail(t, "image")
            /\ acqlog' = Logged(CurPath(t), TRUE, "none")
            /\ UNCHANGED uj

\* the status of an HTTP response
Statuses == {"ok", "http_error"}

\* resp.content: the bytes of the image at url, or the body of the error page
content(status, url) == IF status = "ok" THEN url ELSE <<"http_error">> \o url

\* data = requests.get(url, headers=HEADERS, timeout=20).content
\* (no raise_for_status: the body is taken whatever the status)
upd_img_get(t) ==
    /\ pc[t] = "u_img_get"
    /\ ugot' = [ugot EXCEPT ![t] = TRUE]
    /\ \/ /\ \E st \in Statuses :
                udata' = [udata EXCEPT ![t] = content(st, image_url(prov[t], CurSrc(t)))]
          /\ pc' = [pc EXCEPT ![t] = "u_img_open"]
          /\ UNCHANGED <<uj, ufail, acqlog, runlog, udrop>>
       \/ image_error(t)                          \* the request raised
    /\ UNCHANGED <<prov, exc, acquired, userdir, scrolls, ctl, ctlN, attempts, procs, profiles>>
    /\ UNCHANGED <<active, op, runs, uname, ucats, umatch, ucat, ustubs, ui, uimgs>>
    /\ UNCHANGED <<garg, categories, snapshots, files, retIds>>
    /\ UNCHANGED <<usite, pureVars>>

\* with open(local_path, "wb") as f:
upd_img_open(t) ==
    /\ pc[t] = "u_img_open"
    /\ \/ /\ files' = [files EXCEPT ![CurPath(t)] = "partial"]
          /\ pc' = [pc EXCEPT ![t] = "u_img_write"]
          /\ UNCHANGED <<uj, ufail, acqlog, runlog, udrop, udata>>
       \/ /\ image_error(t)                       \* OSError
          /\ UNCHANGED files
    /\ UNCHANGED <<prov, exc, acquired, userdir, scrolls, ctl, ctlN, attempts, procs, profiles>>
    /\ UNCHANGED <<active, op, runs, uname, ucats, umatch, ucat, ustubs, ui, uimgs, ugot>>
    /\ UNCHANGED <<garg, categories, snapshots, retIds>>
    /\ UNCHANGED <<usite, pureVars>>

\* f.write(data); time.sleep(0.2); image_paths.append(local_path)
upd_img_write(t) ==
    /\ pc[t] = "u_img_write"
    /\ \/ /\ files' = [files EXCEPT ![CurPath(t)] = udata[t]]
          /\ udata' = [udata EXCEPT ![t] = <<>>]
          /\ uimgs' = [uimgs EXCEPT ![t] = Append(@, CurPath(t))]
          /\ uj' = [uj EXCEPT ![t] = @ + 1]
          /\ pc' = [pc EXCEPT ![t] = "u_img"]
          /\ acqlog' = Logged(CurPath(t), TRUE, "path")
          /\ UNCHANGED <<ufail, runlog, udrop>>
       \/ /\ image_error(t)                       \* the write raised: the file stays partial
          /\ UNCHANGED <<files, uimgs>>
    /\ UNCHANGED <<prov, exc, acquired, userdir, scrolls, ctl, ctlN, attempts, procs, profiles>>
    /\ UNCHANGED <<active, op, runs, uname, ucats, umatch, ucat, ustubs, ui, ugot>>
    /\ UNCHANGED <<garg, categories, snapshots, retIds>>
    /\ UNCHANGED <<usite, pureVars>>

\* payload of the snapshot (touche adds 'variaciones')
payload(t) ==
    IF prov[t] = "elpatron"
    THEN [nombre |-> CurStub(t).nombre,
          descripcion |-> Detail(CurStub(t).link).descripcion,
          images |-> uimgs[t]]
    ELSE [nombre |-> CurStub(t).nombre,
          descripcion |-> Detail(CurStub(t).link).descripcion,
          variaciones |-> Detail(CurStub(t).link).variaciones,
          images |-> uimgs[t]]

save_as_upsert(rows, row) ==
    IF \E i \in DOMAIN rows : rows[i].provider = row.provider /\ rows[i].sku = row.sku
    THEN [i \in DOMAIN rows |->
            IF rows[i].provider = row.provider /\ rows[i].sku = row.sku THEN row ELSE rows[i]]
    ELSE Append(rows, row)

\* save_scraped_product: INSERT INTO scraped_products(...) VALUES(...)
save_scraped_product(rows, row) == Append(rows, row)

\* sku = sanitize_filename(nombre); save_scraped_product(PROVIDER, sku, category_id, payload)
upd_save(t) ==
    /\ pc[t] = "u_save"
    /\ snapshots' = save_scraped_product(snapshots,
            [provider |-> prov[t], sku |-> sanitize_filename(CurStub(t).nombre),
             category_id |-> ucat[t], data |-> payload(t)])
    /\ ui' = [ui EXCEPT ![t] = @ + 1]
    /\ uimgs' = [uimgs EXCEPT ![t] = <<>>]
    /\ uj' = [uj EXCEPT ![t] = 0]
    /\ pc' = [pc EXCEPT ![t] = IF ui[t] = Len(ustubs[t]) THEN "done" ELSE "u_detail"]
    /\ runlog' = IF ui[t] = Len(ustubs[t]) THEN run_status(t, "done") ELSE runlog
    /\ UNCHANGED <<prov, exc, acquired, userdir, scrolls, ctl, ctlN, attempts, procs, profiles>>
    /\ UNCHANGED <<active, op, runs, uname, ucats, umatch, ucat, ustubs, ugot, ufail>>
    /\ UNCHANGED <<garg, categories, files, acqlog, retIds>>
    /\ UNCHANGED <<callVars, pureVars>>

(* ---------------------------------------------------------------------- *)
(* Specification of the concurrent listing calls                           *)
(* ---------------------------------------------------------------------- *)

InitBrowser ==
    /\ pc = [t \in Threads |-> "idle"]
    /\ prov = [t \in Threads |-> "elpatron"]
    /\ exc = [t \in Threads |-> FALSE]
    /\ acquired = [t \in Threads |-> FALSE]
    /\ userdir = [t \in Threads |-> NoPath]
    /\ scrolls = [t \in Threads |-> 0]
    /\ ctl = [t \in Threads |-> 0]
    /\ ctlN = [t \in Threads |-> 0]
    /\ attempts = [t \in Threads |-> 0]
    /\ procs = {}
    /\ profiles = [d \in Paths |-> NoDir]

InitStore ==
    /\ op = [t \in Threads |-> "none"]
    /\ runs = 0
    /\ uname = [t \in Threads |-> <<>>]
    /\ ucats = [t \in Threads |-> <<>>]
    /\ umatch = [t \in Threads |-> NoCat]
    /\ ucat = [t \in Threads |-> 0]
    /\ ustubs = [t \in Threads |-> <<>>]
    /\ ui = [t \in Threads |-> 0]
    /\ uj = [t \in Threads |-> 0]
    /\ uimgs = [t \in Threads |-> <<>>]
    /\ ugot = [t \in Threads |-> FALSE]
    /\ ufail = [t \in Threads |-> ""]
    /\ garg = [t \in Threads |-> <<>>]
    /\ categories = {}
    /\ snapshots = <<>>
    /\ files = [f \in FilePaths |-> "absent"]
    /\ acqlog = [f \in FilePaths |-> <<>>]
    /\ runlog = <<>>
    /\ retIds = {}
    /\ usite = [t \in Threads |-> "none"]
    /\ udrop = [t \in Threads |-> {}]
    /\ udata = [t \in Threads |-> <<>>]

\* no name is being sanitized outside the pipeline
InitNames ==
    /\ sx = <<>>
    /\ sy = <<>>

\* no page is being parsed outside the pipeline and the catalog is empty
InitParse ==
    /\ menu = <<>>
    /\ categorias = <<>>
    /\ items = <<>>
    /\ productos = <<>>
    /\ products = {}

Init ==
    /\ InitBrowser
    /\ InitStore
    /\ InitNames
    /\ InitParse
    /\ active = Threads

ThreadNext(t) ==
    \/ Call(t)
    \/ elp_mkdtemp(t)
    \/ elp_chrome(t)
    \/ elp_get(t)
    \/ elp_source(t)
    \/ elp_quit(t)
    \/ elp_rmtree(t)
    \/ tch_chrome(t)
    \/ tch_get(t)
    \/ tch_wait(t)
    \/ tch_scroll(t)
    \/ tch_btn_wait(t)
    \/ tch_btn_click(t)
    \/ tch_source(t)
    \/ tch_quit(t)

Next == \E t \in Threads : ThreadNext(t)

Spec == Init /\ [][Next]_vars

SpecFair == Spec /\ \A t \in Threads : WF_vars(ThreadNext(t))

(* ---------------------------------------------------------------------- *)
(* Specification of the scrape pipeline: one request at a time             *)
(* ---------------------------------------------------------------------- *)

InitAssets ==
    /\ InitBrowser
    /\ InitStore
    /\ InitNames
    /\ InitParse
    /\ active = {"t1"}

UpdateNext(t) ==
    \/ upd_call(t)
    \/ upd_fetch_categories(t)
    \/ goc_insert(t)
    \/ goc_select(t)
    \/ upd_listing(t)
    \/ upd_detail(t)
    \/ upd_img(t)
    \/ upd_img_get(t)
    \/ upd_img_open(t)
    \/ upd_img_write(t)
    \/ upd_save(t)

NextAssets == \E t \in Threads : UpdateNext(t)

SpecAssets == InitAssets /\ [][NextAssets]_vars

(* ---------------------------------------------------------------------- *)
(* Specification of the concurrent category upserts                        *)
(* ---------------------------------------------------------------------- *)

CategoriesNext(t) ==
    \/ goc_call(t)
    \/ goc_insert(t)
    \/ goc_select(t)
    \/ ref_call(t)
    \/ ref_upsert(t)

NextCategories == \E t \in Threads : CategoriesNext(t)

SpecCategories == Init /\ [][NextCategories]_vars

(* ---------------------------------------------------------------------- *)
(* Specification of two overlapping requests, one per thread, each for a   *)
(* menu of at most one category and a listing of at most one product       *)
(* ---------------------------------------------------------------------- *)

OverlapNext(t) ==
    \/ upd_call(t) /\ pc[t] = "idle"
    \/ ref_call(t) /\ pc[t] = "idle"
    \/ upd_fetch_categories(t) /\ Len(ucats'[t]) <= 1
    \/ ref_upsert(t) /\ Len(garg[t]) <= 1
    \/ goc_insert(t)
    \/ goc_select(t)
    \/ upd_listing(t) /\ Len(ustubs'[t]) <= 1
    \/ upd_detail(t)
    \/ upd_img(t)
    \/ upd_img_get(t)
    \/ upd_img_open(t)
    \/ upd_img_write(t)
    \/ upd_save(t)

NextOverlap == \E t \in Threads : OverlapNext(t)

SpecOverlap == Init /\ [][NextOverlap]_vars

(* ---------------------------------------------------------------------- *)
(* Specification of sanitize_filename applied to a name and to its result  *)
(* ---------------------------------------------------------------------- *)

\* tokens of a name given to sanitize_filename
MaxSanLen == 3

SanAlphabet == ForbiddenChars \cup Whitespace \cup {"a", "_"}

SanInputs == SeqsUpTo(SanAlphabet, MaxSanLen)

InitSanitize ==
    /\ InitBrowser
    /\ InitStore
    /\ InitParse
    /\ active = {}
    /\ sx \in SanInputs
    /\ sy = <<>>

\* sanitize_filename(sx), then sanitize_filename of that result
sanitize_call ==
    /\ Len(sy) < 2
    /\ sy' = Append(sy, sanitize_filename(IF sy = <<>> THEN sx ELSE sy[Len(sy)]))
    /\ UNCHANGED <<browserVars, active, pipeVars, storeVars, callVars, sx>>
    /\ UNCHANGED <<parseVars, catalogVars>>

NextSanitize == sanitize_call

SpecSanitize == InitSanitize /\ [][NextSanitize]_vars

Ended(t) == pc[t] \in {"returned", "raised"}

CreatedBy(t) == {d \in Paths : profiles[d] # NoDir /\ profiles[d].by = t}

(* ---------------------------------------------------------------------- *)
(* Browser session release and isolation                                   *)
(* ---------------------------------------------------------------------- *)

\* C1: a fetch_products_for_category call that acquired its browser session and has
\* ended, by returning or by raising, has no running browser process and has left
\* no profile directory that it created.
C1_BrowserReleased ==
    \A t \in Threads :
        (Ended(t) /\ acquired[t]) => (t \notin procs /\ CreatedBy(t) = {})

\* one elpatron call and one touche call have both ended by raising after acquisition
C1_Witness ==
    \E t, u \in Threads :
        /\ pc[t] = "raised" /\ acquired[t] /\ exc[t] /\ prov[t] = "elpatron"
        /\ pc[u] = "raised" /\ acquired[u] /\ exc[u] /\ prov[u] = "touche"

\* C2: after any fetch_products_for_category invocation has ended, on whatever path
\* (a browser that fails to start included), no profile directory created by that
\* invocation remains on disk.
C2_NoProfileLeftBehind ==
    \A t \in Threads : Ended(t) => CreatedBy(t) = {}

\* C3: the profile directory of every live browser session exists and has been used,
\* since it was created, by that session alone: by no other live session and by no
\* earlier one.
C3_ProfileExclusive ==
    \A t \in procs :
        /\ profiles[userdir[t]] # NoDir
        /\ profiles[userdir[t]].users = {t}

\* two elpatron sessions are live at once while a directory of an earlier call exists
C3_Witness ==
    \E t, u \in procs :
        /\ t # u
        /\ prov[t] = "elpatron" /\ prov[u] = "elpatron"
        /\ \E d \in Paths : profiles[d] # NoDir /\ profiles[d].by = "earlier"

(* ---------------------------------------------------------------------- *)
(* Pagination loop                                                         *)
(* ---------------------------------------------------------------------- *)

InPagination(t) == pc[t] \in {"t_btn_wait", "t_btn_click"}

\* C4: with a "load more" control that is clickable exactly N times, the pagination
\* loop makes at most N+1 locate-and-click tries: while it is still in the loop it
\* has made at most N, and it has left the loop once it has made N+1.
C4_AttemptsBounded ==
    \A t \in Threads :
        ctlN[t] >= 0 =>
            /\ InPagination(t) => attempts[t] <= ctlN[t]
            /\ pc[t] \in {"t_source", "t_quit"} => attempts[t] <= ctlN[t] + 1
            /\ (pc[t] = "t_btn_click") => ctl[t] > 0

\* the loop has just ended after MaxN clicks and the try that found no control
C4_Witness ==
    \E t \in Threads :
        /\ pc[t] = "t_source"
        /\ ctlN[t] = MaxN
        /\ ctl[t] = 0
        /\ attempts[t] = MaxN + 1

\* C5: whatever the "load more" control does (absent, never clickable, clickable on
\* every attempt), a call that is in the pagination loop eventually leaves it.
C5_PaginationEnds ==
    \A t \in Threads : InPagination(t) ~> ~InPagination(t)

(* ---------------------------------------------------------------------- *)
(* Asset acquisition and snapshots (SpecAssets)                            *)
(* ---------------------------------------------------------------------- *)

Downloaded == [got |-> TRUE, res |-> "path"]

Skipped == [got |-> FALSE, res |-> "path"]

\* C6: once an acquisition of a file (the same image URL, provider and product name
\* give the same file) has downloaded it, every later acquisition in sequence issues
\* no request and yields the same local path: one download in total.
C6_DedupOneDownload ==
    \A f \in FilePaths : \A i, j \in DOMAIN acqlog[f] :
        (i < j /\ acqlog[f][i] = Downloaded) => acqlog[f][j] = Skipped

\* a file was downloaded by its first acquisition and acquired a second time
C6_Witness ==
    \E f \in FilePaths :
        /\ Len(acqlog[f]) >= 2
        /\ acqlog[f][1] = Downloaded
        /\ acqlog[f][2] = Skipped

\* C7: for both providers, a failure while downloading or writing one image never
\* aborts update_assets_for_category.
C7_ImageFailureNeverAborts ==
    \A t \in Threads : pc[t] = "failed" => ufail[t] # "image"

IsPrefix(a, b) == Len(a) <= Len(b) /\ SubSeq(b, 1, Len(a)) = a

\* the rows a completed run wrote: one per stub of its listing, in order
RunRows(r) ==
    /\ r.base + Len(r.listing) <= Len(snapshots)
    /\ \A n \in 1..Len(r.listing) :
        /\ snapshots[r.base + n].provider = r.prov
        /\ snapshots[r.base + n].data.nombre = r.listing[n].nombre

TwiceSameListing ==
    /\ Len(runlog) = 2
    /\ runlog[1].status = "done" /\ runlog[2].status = "done"
    /\ runlog[1].prov = runlog[2].prov
    /\ runlog[1].cat = runlog[2].cat
    /\ runlog[1].listing = runlog[2].listing

\* C8: no step of the pipeline changes or removes an existing scraped_products row,
\* every completed run has its own row per listed product, and two completed runs on
\* the same category with the same listing of k products leave 2k rows.
C8_AppendOnly ==
    /\ [][IsPrefix(snapshots, snapshots')]_vars
    /\ [](\A i \in DOMAIN runlog : runlog[i].status = "done" => RunRows(runlog[i]))
    /\ [](TwiceSameListing => Len(snapshots) = 2 * Len(runlog[1].listing))

\* the same category was scraped twice with the same listing of MaxStubs products
C8_Witness ==
    /\ TwiceSameListing
    /\ Len(runlog[1].listing) = MaxStubs
    /\ Len(snapshots) = 2 * MaxStubs

(* ---------------------------------------------------------------------- *)
(* Category registrar (SpecCategories)                                     *)
(* ---------------------------------------------------------------------- *)

RowKeys(cats) == {<<r.id, r.provider, r.name>> : r \in cats}

\* C9: under concurrent get_or_create_category / refresh_categories calls the table
\* holds at most one row per (provider, name), all calls for a pair return the same
\* id, and no call changes anything of an existing row but its url.
C9_OneRowPerKey ==
    /\ [](\A r1, r2 \in categories :
            (r1.provider = r2.provider /\ r1.name = r2.name) => r1 = r2)
    /\ [](\A x, y \in retIds : (x[1] = y[1] /\ x[2] = y[2]) => x[3] = y[3])
    /\ [][RowKeys(categories) \subseteq RowKeys(categories')]_vars

\* two get_or_create_category calls for the same pair with different urls have both
\* executed their upsert and are about to read the id
C9_Witness ==
    \E t, u \in Threads :
        /\ t # u
        /\ pc[t] = "g_select" /\ pc[u] = "g_select"
        /\ garg[t][1][1] = garg[u][1][1]
        /\ garg[t][1][2] = garg[u][1][2]
        /\ garg[t][1][3] # garg[u][1][3]

(* ---------------------------------------------------------------------- *)
(* Category lookup (SpecAssets)                                            *)
(* ---------------------------------------------------------------------- *)

Selected(t) == op[t] = "update_assets" /\ pc[t] \in {"g_insert", "g_select"}

NotFound(t) == pc[t] = "failed" /\ ufail[t] = "notfound"

\* C10 as stated: for every provider a discovered category is selected only when its
\* name is exactly category_name, and the call fails with not-found when no
\* discovered category has exactly that name.
C10_ExactNameOnly ==
    \A t \in Threads :
        /\ Selected(t) => umatch[t].nombre = uname[t]
        /\ NotFound(t) => \A i \in DOMAIN ucats[t] : ucats[t][i].nombre # uname[t]

SameName(p, a, b) == IF p = "elpatron" THEN a = b ELSE norm(a) = norm(b)

\* C10 amended: elpatron compares the names exactly, touche compares them with
\* surrounding whitespace stripped and case folded; the category selected is the
\* first of the menu that compares equal, and the call fails with not-found exactly
\* when none does.
C10_ProviderNameRule ==
    \A t \in Threads :
        /\ Selected(t) =>
            \E i \in DOMAIN ucats[t] :
                /\ umatch[t] = ucats[t][i]
                /\ SameName(prov[t], ucats[t][i].nombre, uname[t])
                /\ \A j \in 1..(i - 1) : ~SameName(prov[t], ucats[t][j].nombre, uname[t])
        /\ NotFound(t) =>
            \A i \in DOMAIN ucats[t] : ~SameName(prov[t], ucats[t][i].nombre, uname[t])

\* touche selected a category whose name differs from category_name in case or
\* surrounding whitespace
C10_Witness ==
    \E t \in Threads :
        /\ Selected(t)
        /\ prov[t] = "touche"
        /\ umatch[t].nombre # uname[t]
        /\ norm(umatch[t].nombre) = norm(uname[t])

(* ---------------------------------------------------------------------- *)
(* Outcome of a category scrape (SpecAssets)                               *)
(* ---------------------------------------------------------------------- *)

CategoryIds == {r.id : r \in categories}

\* C11: a run of update_assets_for_category on a category that fetch_categories
\* lists never completes normally without having written at least one snapshot row
\* of its own that carries the id of a registered category.
C11_CompletesWithSnapshot ==
    \A i \in DOMAIN runlog :
        (runlog[i].status = "done" /\ runlog[i].cat # NoCat) =>
            /\ Len(snapshots) > runlog[i].base
            /\ snapshots[runlog[i].base + 1].category_id \in CategoryIds
            /\ i < Len(runlog) => runlog[i + 1].base > runlog[i].base

(* ---------------------------------------------------------------------- *)
(* Images listed by a snapshot (SpecAssets)                                *)
(* ---------------------------------------------------------------------- *)

\* the candidates of the current product that have a source and whose download did
\* not fail, as local paths in page order
KeptPaths(t) ==
    LET kept == SelectSeq([j \in 1..Len(CurImgs(t)) |-> j],
                          LAMBDA j : CurImgs(t)[j] # NoSrc /\ j \notin udrop[t])
    IN  [k \in DOMAIN kept |->
            local_path(prov[t], CurStub(t).nombre, CurImgs(t)[kept[k]])]

\* C12: the images of every snapshot are paths of files that exist on disk when the
\* snapshot is written, and they are exactly the candidates whose download did not
\* fail: a failed download contributes no entry.
C12_ImagesExist ==
    /\ [](\A i \in DOMAIN snapshots : \A n \in DOMAIN snapshots[i].data.images :
            /\ snapshots[i].data.images[n] \in FilePaths
            /\ files[snapshots[i].data.images[n]] # "absent")
    /\ [][\A t \in Threads : (pc[t] = "u_save" /\ pc'[t] # "u_save") =>
            /\ Len(snapshots') = Len(snapshots) + 1
            /\ snapshots'[Len(snapshots')].data.images = KeptPaths(t)
            /\ \A n \in DOMAIN KeptPaths(t) : files[KeptPaths(t)[n]] # "absent"]_vars

\* a product is about to be saved with one image downloaded and one dropped
C12_Witness ==
    \E t \in Threads :
        /\ pc[t] = "u_save"
        /\ udrop[t] # {}
        /\ uimgs[t] # <<>>
        /\ \E f \in FilePaths : files[f] = "absent"

(* ---------------------------------------------------------------------- *)
(* Failure of a detail fetch (SpecAssets)                                  *)
(* ---------------------------------------------------------------------- *)

DetailFailed(t) == ufail[t] = "detail"

\* C13: when the detail fetch of stub k fails the call ends failed; the rows written
\* by the call are those of stubs 1..k-1 and no other, and the call takes no further
\* step (no request, no file, no row) after the failure.
C13_DetailFailureAborts ==
    /\ [](\A t \in Threads : DetailFailed(t) =>
            /\ pc[t] = "failed"
            /\ runlog[CurRun(t)].status = "failed"
            /\ Len(snapshots) = runlog[CurRun(t)].base + ui[t] - 1
            /\ \A n \in 1..(ui[t] - 1) :
                 snapshots[runlog[CurRun(t)].base + n].data.nombre = ustubs[t][n].nombre)
    /\ [][\A t \in Threads : DetailFailed(t) =>
            \/ DetailFailed(t)' /\ UNCHANGED <<snapshots, files, categories, ugot, acqlog>>
            \/ runs' = runs + 1]_vars

\* the detail fetch of the second stub failed after the first stub's snapshot was written
C13_Witness ==
    \E t \in Threads :
        /\ DetailFailed(t)
        /\ pc[t] = "failed"
        /\ ui[t] = 2
        /\ Len(snapshots) = runlog[CurRun(t)].base + 1

(* ---------------------------------------------------------------------- *)
(* Order of the steps of one invocation (SpecAssets)                       *)
(* ---------------------------------------------------------------------- *)

PerStub == {"u_detail", "u_img", "u_img_get", "u_img_open", "u_img_write", "u_save"}

Entered(t, q) == pc'[t] = q /\ pc[t] # q

\* C14: one invocation runs discovery, registration, listing, then for each stub the
\* detail fetch, the asset acquisitions and the snapshot write: the listing is fetched
\* once and only with the category id obtained, and the snapshot of a stub is written
\* after all acquisitions of that stub and before the next stub's detail fetch.
C14_StepOrder ==
    /\ [](\A t \in Threads :
            /\ pc[t] = "u_listing" =>
                 /\ ucat[t] \in CategoryIds
                 /\ runlog[CurRun(t)].listing = <<>>
                 /\ Len(snapshots) = runlog[CurRun(t)].base
            /\ pc[t] \in PerStub =>
                 Len(snapshots) = runlog[CurRun(t)].base + ui[t] - 1)
    /\ [][\A t \in Threads :
            /\ (Entered(t, "g_insert") /\ op'[t] = "update_assets") =>
                 pc[t] = "u_fetch_categories"
            /\ Entered(t, "u_listing") => pc[t] = "g_select"
            /\ (pc[t] = "u_listing" /\ pc'[t] # "u_listing") =>
                 pc'[t] \in {"u_detail", "done", "failed"}
            /\ pc[t] \in PerStub => pc'[t] # "u_listing"
            /\ Entered(t, "u_detail") =>
                 \/ pc[t] = "u_listing" /\ ui'[t] = 1
                 \/ pc[t] = "u_save" /\ ui'[t] = ui[t] + 1]_vars
    /\ [][Len(snapshots') # Len(snapshots) =>
            \E t \in Threads :
                /\ pc[t] = "u_save"
                /\ uj[t] > Len(CurImgs(t))
                /\ snapshots' = Append(snapshots, snapshots'[Len(snapshots')])
                /\ snapshots'[Len(snapshots')].data.nombre = CurStub(t).nombre
                /\ snapshots'[Len(snapshots')].category_id = ucat[t]]_vars

\* the detail fetch of the second stub is about to start, the first stub's snapshot
\* being the only row of the run
C14_Witness ==
    \E t \in Threads :
        /\ pc[t] = "u_detail"
        /\ ui[t] = 2
        /\ Len(snapshots) = runlog[CurRun(t)].base + 1
        /\ snapshots[Len(snapshots)].data.images # <<>>

(* ---------------------------------------------------------------------- *)
(* Listing that never appears (SpecAssets)                                 *)
(* ---------------------------------------------------------------------- *)

\* C15: for every provider, a run whose category page never shows the product
\* listing container ends failed (the listing operation raises instead of returning
\* an empty list), and the run has written no snapshot.
C15_MissingListingFails ==
    \A i \in DOMAIN runlog :
        runlog[i].container = "absent" =>
            /\ runlog[i].status = "failed"
            /\ i = Len(runlog) => Len(snapshots) = runlog[i].base

(* ---------------------------------------------------------------------- *)
(* Image GET answered with an HTTP error (SpecAssets)                      *)
(* ---------------------------------------------------------------------- *)

IsErrorBody(d) == d # <<>> /\ Head(d) = "http_error"

Written(f) == files[f] # "absent" /\ files[f] # "partial"

\* C16: an image GET answered with a non-success status is a failed download: the
\* response is not carried on to a file, no file holds its body, and no snapshot
\* lists the path of such a file.
C16_HttpErrorIsFailedDownload ==
    /\ \A t \in Threads :
         pc[t] \in {"u_img_open", "u_img_write"} => ~IsErrorBody(udata[t])
    /\ \A f \in FilePaths : Written(f) => ~IsErrorBody(files[f])
    /\ \A i \in DOMAIN snapshots : \A n \in DOMAIN snapshots[i].data.images :
         Written(snapshots[i].data.images[n]) =>
             ~IsErrorBody(files[snapshots[i].data.images[n]])

(* ---------------------------------------------------------------------- *)
(* Two overlapping runs acquiring the same image (SpecOverlap)             *)
(* ---------------------------------------------------------------------- *)

\* C17: while two runs overlap, a run that is about to write a snapshot lists in it
\* no path of a file that is empty or partially written at that moment.
C17_NoPartialFileRecorded ==
    \A t, u \in Threads :
        (t # u /\ pc[t] = "u_save" /\ pc[u] \in PerStub) =>
            \A n \in DOMAIN uimgs[t] : Written(uimgs[t][n])

(* ---------------------------------------------------------------------- *)
(* Unregistered provider key (SpecOverlap)                                 *)
(* ---------------------------------------------------------------------- *)

Unregistered(t) == usite[t] \in Sites \ Providers

Existing == {d \in Paths : profiles[d] # NoDir}

\* C19: a fetch_categories or update_assets call with an unregistered provider key
\* ends at once with the unknown-provider error: the step that makes the call changes
\* no table, no file, no browser process and no profile directory, issues no request,
\* and the call takes no step afterwards.
C19_UnknownProviderFailsFirst ==
    /\ [](\A t \in Threads : Unregistered(t) =>
            /\ pc[t] \in {"failed", "raised"}
            /\ op[t] = "update_assets" => (pc[t] = "failed" /\ ufail[t] = "unknown_site")
            /\ op[t] = "refresh_categories" => pc[t] = "raised"
            /\ ~ugot[t] /\ garg[t] = <<>>)
    /\ [][\A t \in Threads : (Unregistered(t)' /\ pc'[t] # pc[t]) =>
            /\ UNCHANGED <<categories, snapshots, files, acqlog, runlog, retIds, garg, procs>>
            /\ Existing' = Existing]_vars
    /\ [][\A t \in Threads : Unregistered(t) => (pc'[t] = pc[t] \/ runs' = runs + 1)]_vars

\* an update_assets call and a fetch_categories call were both made with an
\* unregistered key
C19_Witness ==
    \E t, u \in Threads :
        /\ Unregistered(t) /\ op[t] = "update_assets" /\ pc[t] = "failed"
        /\ Unregistered(u) /\ op[u] = "refresh_categories" /\ pc[u] = "raised"

(* ---------------------------------------------------------------------- *)
(* Local asset paths (SpecAssets)                                          *)
(* ---------------------------------------------------------------------- *)

\* <root>/<provider>/<sanitized category>/<sanitized product name>_<url basename>
CategoryPath(p, category, nombre, src) ==
    <<"product_assets", "/", p, "/">> \o sanitize_filename(category) \o <<"/">>
        \o fname(p, nombre, src)

\* C18: every local path a snapshot lists lies under the directory of its provider
\* and of its category.
C18_PathUnderCategory ==
    \A i \in DOMAIN snapshots : \A n \in DOMAIN snapshots[i].data.images :
        \E c \in categories, src \in AllSrcs :
            /\ c.id = snapshots[i].category_id
            /\ snapshots[i].data.images[n] =
                 CategoryPath(snapshots[i].provider, c.name, snapshots[i].data.nombre, src)

(* ---------------------------------------------------------------------- *)
(* Filename sanitization (SpecSanitize)                                    *)
(* ---------------------------------------------------------------------- *)

\* C20: sanitizing a sanitized name changes nothing, and a sanitized name holds none
\* of the characters \ / * ? : " < > | and no space.
C20_SanitizeIdempotent ==
    /\ Len(sy) >= 1 => Range(sy[1]) \cap (ForbiddenChars \cup {" "}) = {}
    /\ Len(sy) = 2 => sy[2] = sy[1]

\* a name with a forbidden character and a space was sanitized twice
C20_Witness ==
    /\ Len(sy) = 2
    /\ Range(sx) \cap ForbiddenChars # {}
    /\ " " \in Range(sx)
    /\ sy[1] # <<>>

(* ---------------------------------------------------------------------- *)
(* Snapshot payload (SpecAssets)                                           *)
(* ---------------------------------------------------------------------- *)

\* keys of the payload contract { name, description, variants, images } as the
\* scrapers spell them
PayloadContract == {"nombre", "descripcion", "variaciones", "images"}

\* C21: the payload of every snapshot row has the four fields name, description,
\* variants and images, whichever provider wrote it.
C21_PayloadShape ==
    \A i \in DOMAIN snapshots : DOMAIN snapshots[i].data = PayloadContract

(* ---------------------------------------------------------------------- *)
(* fetch_categories: the entries of the navigation menu (SpecMenu)         *)
(* ---------------------------------------------------------------------- *)

\* anchors of the menu in one page
MaxAnchors == 2

\* tokens of an href attribute
MaxHrefLen == 2

HrefTokens == {" ", "#", "/", "javascript:", "JavaScript:", "https://cdn"}

Hrefs == SeqsUpTo(HrefTokens, MaxHrefLen)

AnchorTexts == {<<"a">>, <<" ", "a">>, <<"b">>}

\* an <a> of the menu: its text, whether it has an href attribute, and the attribute
Anchors ==
    {[text |-> x, has_href |-> TRUE, href |-> h] : x \in AnchorTexts, h \in Hrefs}
        \cup {[text |-> x, has_href |-> FALSE, href |-> <<>>] : x \in AnchorTexts}

\* the page: whether soup.find("ul", class_=...) finds the menu, and its anchors
MenuPages ==
    {[found |-> TRUE, anchors |-> as] : as \in SeqsUpTo(Anchors, MaxAnchors)}
        \cup {[found |-> FALSE, anchors |-> <<>>]}

\* elpatron: menu.select("a...") and (a.get("href") or "").strip();
\* touche: menu.find_all('a', href=True) and a['href'].strip()
menu_anchors(p, m) ==
    IF p = "touche" THEN SelectSeq(m.anchors, LAMBDA a : a.has_href) ELSE m.anchors

href_of(a) == IF a.has_href THEN strip(a.href) ELSE <<>>

\* if not href or href == "#" or "javascript:" in href: continue
skip_href(href) == href = <<>> \/ href = <<"#">> \/ "javascript:" \in Range(href)

\* url = href if "://" in href else urljoin(BASE_URL, href)
category_url(p, href) ==
    IF Range(href) \cap AbsTokens # {} THEN href ELSE urljoin(p, href)

\* fetch_categories() of provider p on a page whose menu is m
fetch_categories(p, m) ==
    IF ~m.found THEN <<>>
    ELSE LET kept == SelectSeq(menu_anchors(p, m), LAMBDA a : ~skip_href(href_of(a)))
         IN  [i \in DOMAIN kept |->
                [nombre |-> strip(kept[i].text), url |-> category_url(p, href_of(kept[i]))]]

InitMenu ==
    /\ InitBrowser
    /\ InitStore
    /\ InitNames
    /\ active = {}
    /\ menu \in MenuPages
    /\ categorias = <<>>
    /\ items = <<>>
    /\ productos = <<>>
    /\ products = {}

\* categorias = fetch_categories() of either provider
menu_call ==
    /\ pc["t1"] = "idle"
    /\ \E p \in Providers :
         /\ prov' = [prov EXCEPT !["t1"] = p]
         /\ categorias' = fetch_categories(p, menu)
    /\ pc' = [pc EXCEPT !["t1"] = "returned"]
    /\ UNCHANGED <<exc, acquired, userdir, scrolls, ctl, ctlN, attempts, procs, profiles>>
    /\ UNCHANGED <<active, pipeVars, storeVars, callVars, sanVars, catalogVars>>
    /\ UNCHANGED <<menu, items, productos>>

NextMenu == menu_call

SpecMenu == InitMenu /\ [][NextMenu]_vars

\* a link that is a script pseudo-URL
IsScriptUrl(h) == h # <<>> /\ Head(h) \in ScriptSchemes

\* a link with a scheme and a host of its own
IsAbsolute(h) == h # <<>> /\ Head(h) \in AbsTokens

\* a menu entry whose link is not empty, not "#" and not a script pseudo-URL
Navigable(a) ==
    /\ a.has_href
    /\ strip(a.href) # <<>>
    /\ strip(a.href) # <<"#">>
    /\ ~IsScriptUrl(strip(a.href))

NavigationEntries(p, m) ==
    LET kept == SelectSeq(m.anchors, Navigable)
    IN  [i \in DOMAIN kept |->
            [nombre |-> strip(kept[i].text),
             url |-> IF IsAbsolute(strip(kept[i].href)) THEN strip(kept[i].href)
                     ELSE urljoin(p, strip(kept[i].href))]]

\* C22: fetch_categories returns, in menu order and with equal names kept apart,
\* exactly the menu entries whose link is not empty, not "#" and not a script
\* pseudo-URL, a relative link being resolved against the provider's base URL.
C22_MenuEntries ==
    pc["t1"] = "returned" => categorias = NavigationEntries(prov["t1"], menu)

(* ---------------------------------------------------------------------- *)
(* fetch_products_for_category: the items of the listing page (SpecItems)  *)
(* ---------------------------------------------------------------------- *)

\* product items in one listing page
MaxItems == 2

\* anchors inside one product item
MaxItemAnchors == 2

ItemHrefs == {<<>>, <<"/", "p1">>, <<"https://cdn", "/", "p2">>}

\* an <a> inside a product item: whether it has an href attribute, and the attribute
ItemAnchors ==
    {[has_href |-> TRUE, href |-> h] : h \in ItemHrefs}
        \cup {[has_href |-> FALSE, href |-> <<>>]}

\* a product item: whether it has a .product-name element, the name it shows (as the
\* element's text and as its anchors' title), and its anchors in document order
Items ==
    {[name_el |-> n, nombre |-> <<"a">>, anchors |-> as] :
        n \in BOOLEAN, as \in SeqsUpTo(ItemAnchors, MaxItemAnchors)}

\* elpatron.py:123-136: link_el = product.select_one("a");
\* if not name_el or not link_el: continue; href = (link_el.get("href") or "").strip()
elp_item(it) ==
    IF ~it.name_el \/ it.anchors = <<>> THEN <<>>
    ELSE << [nombre |-> it.nombre,
             link |-> category_url("elpatron", href_of(Head(it.anchors)))] >>

\* touche.py:148-153: a = it.find('a', href=True); if not a: continue;
\* link = urljoin(BASE_URL, a['href'])
tch_item(it) ==
    LET with == SelectSeq(it.anchors, LAMBDA a : a.has_href)
    IN  IF with = <<>> THEN <<>>
        ELSE << [nombre |-> it.nombre, link |-> urljoin("touche", Head(with).href)] >>

\* the stubs fetch_products_for_category builds from the items, in page order
RECURSIVE listing_stubs(_, _)
listing_stubs(p, its) ==
    IF its = <<>> THEN <<>>
    ELSE (IF p = "elpatron" THEN elp_item(Head(its)) ELSE tch_item(Head(its)))
            \o listing_stubs(p, Tail(its))

InitItems ==
    /\ InitBrowser
    /\ InitStore
    /\ InitNames
    /\ active = {}
    /\ menu = <<>>
    /\ categorias = <<>>
    /\ items \in SeqsUpTo(Items, MaxItems)
    /\ productos = <<>>
    /\ products = {}

\* productos = the stubs of either provider's fetch_products_for_category
items_call ==
    /\ pc["t1"] = "idle"
    /\ \E p \in Providers :
         /\ prov' = [prov EXCEPT !["t1"] = p]
         /\ productos' = listing_stubs(p, items)
    /\ pc' = [pc EXCEPT !["t1"] = "returned"]
    /\ UNCHANGED <<exc, acquired, userdir, scrolls, ctl, ctlN, attempts, procs, profiles>>
    /\ UNCHANGED <<active, pipeVars, storeVars, callVars, sanVars, catalogVars>>
    /\ UNCHANGED <<menu, categorias, items>>

NextItems == items_call

SpecItems == InitItems /\ [][NextItems]_vars

\* the detail links an item offers: the non-empty hrefs of its anchors, resolved
DetailLinks(p, it) ==
    {category_url(p, strip(it.anchors[k].href)) :
        k \in {n \in DOMAIN it.anchors :
                 it.anchors[n].has_href /\ strip(it.anchors[n].href) # <<>>}}

\* C23: the listing skips every item without a usable detail link: each stub returned
\* carries a link of an item of the page, never the bare base URL an empty href gives,
\* and there are no more stubs than items with a usable link.
C23_StubsHaveLinks ==
    pc["t1"] = "returned" =>
        /\ \A i \in DOMAIN productos :
             /\ productos[i].link # urljoin(prov["t1"], <<>>)
             /\ \E n \in DOMAIN items : productos[i].link \in DetailLinks(prov["t1"], items[n])
        /\ Len(productos) <=
             Cardinality({n \in DOMAIN items : DetailLinks(prov["t1"], items[n]) # {}})

(* ---------------------------------------------------------------------- *)
(* A call for a category that is not in the menu (SpecAssets)              *)
(* ---------------------------------------------------------------------- *)

\* thread t enters update_assets_for_category
Enters(t) == pc[t] # "u_fetch_categories" /\ pc'[t] = "u_fetch_categories"

\* thread t leaves it by the "no encontrada" ValueError
RaisesNotFound(t) ==
    pc[t] = "u_fetch_categories" /\ pc'[t] = "failed" /\ ufail'[t] = "notfound"

\* the profile directories that exist
Dirs == {d \in Paths : profiles[d] # NoDir}

\* C24: a call that fails because no discovered category has the name leaves no
\* trace: from its entry to its failure the tables categories and scraped_products,
\* the files and the browser sessions are unchanged, and the call never reached the
\* listing, a detail page or an image.
C24_NotFoundNoEffects ==
    /\ [](\A t \in Threads :
            pc[t] = "failed" /\ ufail[t] = "notfound" =>
                /\ runlog[CurRun(t)].cat = NoCat
                /\ runlog[CurRun(t)].container = "unknown"
                /\ runlog[CurRun(t)].listing = <<>>
                /\ runlog[CurRun(t)].base = Len(snapshots)
                /\ ustubs[t] = <<>> /\ uimgs[t] = <<>> /\ ~ugot[t])
    /\ [][\A t \in Threads :
            Enters(t) \/ RaisesNotFound(t) =>
                /\ UNCHANGED <<categories, snapshots, files, procs, acquired, retIds>>
                /\ Dirs' = Dirs]_vars

\* a call failed for a missing category after an earlier call had registered a
\* category, written a file and added a snapshot
C24_Witness ==
    \E t \in Threads :
        /\ pc[t] = "failed" /\ ufail[t] = "notfound"
        /\ categories # {}
        /\ snapshots # <<>>
        /\ \E f \in FilePaths : Written(f)

(* ---------------------------------------------------------------------- *)
(* Whose image a recorded file holds (SpecAssets)                          *)
(* ---------------------------------------------------------------------- *)

\* the product of the listing that has this name
ProductOf(nombre) == CHOOSE st \in StubPool : st.nombre = nombre

\* the URLs requested for the image candidates of a product
ImageUrls(p, st) == {image_url(p, src) : src \in Range(Detail(st.link).imgs) \ {NoSrc}}

\* the URL a response body came from
ContentUrl(d) == IF IsErrorBody(d) THEN Tail(d) ELSE d

\* C25: every path in a snapshot's images is of a file whose content was downloaded
\* from an image URL of the snapshot's own product, also when two products have
\* names that sanitize to the same text (a file still being written is not judged).
C25_OwnImageBytes ==
    \A i \in DOMAIN snapshots : \A n \in DOMAIN snapshots[i].data.images :
        Written(snapshots[i].data.images[n]) =>
            ContentUrl(files[snapshots[i].data.images[n]])
                \in ImageUrls(snapshots[i].provider, ProductOf(snapshots[i].data.nombre))

(* ---------------------------------------------------------------------- *)
(* The catalog: table products (SpecCatalog)                               *)
(* ---------------------------------------------------------------------- *)

\* rows of table products in one behaviour
MaxProducts == 2

\* a key the JSON body does not have
None == <<"None">>

\* the site path parameter of the catalog routes
CatalogSites == {"elpatron", "manual"}

\* values of the "status" key of a JSON body
StatusInputs == {None, <<>>, <<"published">>, <<"hidden">>, <<" ", "Hidden">>, <<"draft">>}

\* values of the "name" key of a JSON body
ProductNames == {None, <<>>, <<"n">>}

\* .strip().lower()
strip_lower(s) == [i \in DOMAIN strip(s) |-> lower(strip(s)[i])]

\* status not in ("published", "hidden")
ValidStatus(s) == s \in {<<"published">>, <<"hidden">>}

\* PROVIDER_MATCH on provider values that have no space and no capital
ProviderMatch(r, site) == r.provider = site

NewProductId(rows) == Cardinality(rows) + 1

\* main._get_or_create_category: select the id, insert the row when there is none
main_get_or_create_category(cats, p, n) ==
    IF RowsOf(cats, p, n) # {} THEN cats
    ELSE cats \cup {[id |-> NewId(cats), provider |-> p, name |-> n, url |-> <<>>]}

\* the tables after a scrape of elpatron's category 'a' that listed the product 'a_b'
\* and could not download its image
InitCatalog ==
    /\ InitBrowser
    /\ InitNames
    /\ InitParse
    /\ active = {}
    /\ op = [t \in Threads |-> "none"]
    /\ runs = 0
    /\ uname = [t \in Threads |-> <<>>]
    /\ ucats = [t \in Threads |-> <<>>]
    /\ umatch = [t \in Threads |-> NoCat]
    /\ ucat = [t \in Threads |-> 0]
    /\ ustubs = [t \in Threads |-> <<>>]
    /\ ui = [t \in Threads |-> 0]
    /\ uj = [t \in Threads |-> 0]
    /\ uimgs = [t \in Threads |-> <<>>]
    /\ ugot = [t \in Threads |-> FALSE]
    /\ ufail = [t \in Threads |-> ""]
    /\ garg = [t \in Threads |-> <<>>]
    /\ categories = {[id |-> 1, provider |-> "elpatron", name |-> <<"a">>, url |-> CatUrl(1)]}
    /\ snapshots = << [provider |-> "elpatron", sku |-> <<"a", "_", "b">>, category_id |-> 1,
                       data |-> [nombre |-> <<"a", "_", "b">>, descripcion |-> <<>>,
                                 images |-> <<>>]] >>
    /\ files = [f \in FilePaths |-> "absent"]
    /\ acqlog = [f \in FilePaths |-> <<>>]
    /\ runlog = <<>>
    /\ retIds = {}
    /\ usite = [t \in Threads |-> "none"]
    /\ udrop = [t \in Threads |-> {}]
    /\ udata = [t \in Threads |-> <<>>]

\* POST /api/{site}/catalog/publish/{scrape_id}
publish_product ==
    /\ Cardinality(products) < MaxProducts
    /\ \E site \in CatalogSites, scrape_id \in DOMAIN snapshots :
         /\ snapshots[scrape_id].provider = site          \* else HTTPException(404)
         /\ products' = products \cup
              {[id |-> NewProductId(products), provider |-> site,
                name |-> snapshots[scrape_id].data.nombre, status |-> <<"published">>]}
    /\ UNCHANGED <<browserVars, active, pipeVars, storeVars, callVars, sanVars, parseVars>>

\* POST /api/manual/catalog
create_manual_product ==
    /\ Cardinality(products) < MaxProducts
    /\ \E bname \in ProductNames, bstatus \in StatusInputs,
          category_id \in {None, <<"1">>}, category_name \in {None, <<"c">>} :
         LET name   == strip(IF bname = None THEN <<>> ELSE bname)
             status == strip_lower(IF bstatus \in {None, <<>>} THEN <<"published">>
                                   ELSE bstatus)
         IN  /\ name # <<>>                                \* else HTTPException(400)
             /\ ValidStatus(status)                        \* else HTTPException(400)
             /\ ~(category_id = None /\ category_name = None)
             /\ categories' =
                  IF category_id = None
                  THEN main_get_or_create_category(categories, "manual", strip(category_name))
                  ELSE categories
             /\ products' = products \cup
                  {[id |-> NewProductId(products), provider |-> "manual",
                    name |-> name, status |-> status]}
    /\ UNCHANGED <<browserVars, active, pipeVars, callVars, sanVars, parseVars>>
    /\ UNCHANGED <<garg, snapshots, files, acqlog, runlog, retIds>>

\* DELETE /api/{site}/catalog/{product_id}
hide_product ==
    /\ \E site \in CatalogSites, r \in products :
         /\ ProviderMatch(r, site)
         /\ r.status # <<"hidden">>                        \* else HTTPException(404)
         /\ products' = (products \ {r}) \cup {[r EXCEPT !.status = <<"hidden">>]}
    /\ UNCHANGED <<browserVars, active, pipeVars, storeVars, callVars, sanVars, parseVars>>

\* PATCH /api/{site}/catalog/{product_id}/status
set_product_status ==
    /\ \E site \in CatalogSites, r \in products, bstatus \in StatusInputs :
         LET status == strip_lower(IF bstatus = None THEN <<>> ELSE bstatus)
         IN  /\ ValidStatus(status)                        \* else HTTPException(400)
             /\ ProviderMatch(r, site)                     \* else HTTPException(404)
             /\ products' = (products \ {r}) \cup {[r EXCEPT !.status = status]}
    /\ UNCHANGED <<browserVars, active, pipeVars, storeVars, callVars, sanVars, parseVars>>

\* PUT /api/{site}/catalog/{product_id}: name and status of the body, as given
edit_product ==
    /\ \E site \in CatalogSites, r \in products,
          name \in ProductNames, status \in StatusInputs :
         /\ ~(name = None /\ status = None)                \* else HTTPException(400)
         /\ ProviderMatch(r, site)                         \* else HTTPException(404)
         /\ products' = (products \ {r}) \cup
              {[r EXCEPT !.name = IF name = None THEN @ ELSE name,
                         !.status = IF status = None THEN @ ELSE status]}
    /\ UNCHANGED <<browserVars, active, pipeVars, storeVars, callVars, sanVars, parseVars>>

NextCatalog ==
    \/ publish_product
    \/ create_manual_product
    \/ hide_product
    \/ set_product_status
    \/ edit_product

SpecCatalog == InitCatalog /\ [][NextCatalog]_vars

\* C26: whatever catalog operations have run, the status of every product is
\* 'published' or 'hidden'.
C26_StatusDomain ==
    \A r \in products : ValidStatus(r.status)

====
